---- MODULE Spec2Model ----
(***************************************************************************)
(* Model of the bingo board renderer (src/src/board_renderer.rs):          *)
(*   - find_system_font_data : font override + host font discovery         *)
(*   - TextPainter           : word_width, draw_wrapped, draw_line         *)
(*   - render_board_to_png   : dimension check, buffer, grid, cells, file  *)
(*                                                                         *)
(* Four specifications share the module:                                   *)
(*   Spec      render_board_to_png from call to return                     *)
(*   SpecFont  find_system_font_data + TextPainter::new on many hosts      *)
(*   SpecWrap  TextPainter::draw_wrapped, one loop iteration per step      *)
(*   SpecDraw  TextPainter::draw_line, one glyph per step                  *)
(*                                                                         *)
(* Text is a sequence of one-character strings.  Lengths are in whole      *)
(* pixels.  The parsed font (rusttype, an external library) is a fixed     *)
(* table of metrics, advances and glyph boxes, without kerning.            *)
(***************************************************************************)
EXTENDS Integers, Sequences, FiniteSets, TLC

VARIABLES
    board_size, elements, overflow_checks, env,   \* inputs of a render
    pc, img, gi, cell, font_data, touched, outcome, file_created,
    loc,                                          \* font locator run
    wrap,                                         \* draw_wrapped run
    draw                                          \* draw_line run

vars == <<board_size, elements, overflow_checks, env, pc, img, gi, cell,
          font_data, touched, outcome, file_created, loc, wrap, draw>>

renderVars == <<board_size, elements, overflow_checks, env, pc, img, gi, cell,
                font_data, touched, outcome, file_created>>

----------------------------------------------------------------------------
(* Bounds of the model *)

MaxTextLen == 5
MaxLineLen == 2
MaxBoard == 2
MaxFiles == 2

----------------------------------------------------------------------------
(* Machine integers *)

\* board_size and every pixel coordinate are u32 in the source.  TLC's own
\* integers end at 2^31 - 1, so the model keeps the wrap-around arithmetic on
\* a 16-bit word: the order of the overflows is the source's (n * n wraps
\* before n * cell_px does, here from n = 256 and n = 512, there from
\* n = 65536 and n = 33554432).  usize values (elements.len()) are wider than
\* the word and never wrap.
WordMod == 65536

SignedHalf == 32768

WrapU32(x) == x % WordMod

\* `v as i32` of a u32
AsI32(v) == IF v >= SignedHalf THEN v - WordMod ELSE v

\* `v as u32` of an i32
AsU32(v) == IF v < 0 THEN v + WordMod ELSE v

----------------------------------------------------------------------------
(* The parsed font at Scale::uniform(18.0) *)

Ascent == 17

Descent == -4

LineGap == 0

\* TextPainter::new: (v.ascent - v.descent + v.line_gap).ceil()
LineHeight == Ascent - Descent + LineGap

\* h_metrics().advance_width of one glyph
AdvanceWidth(c) ==
    CASE c = "i" -> 4
      [] c = "j" -> 4
      [] c = "m" -> 14
      [] c = " " -> 5

\* pixel_bounding_box of a glyph relative to its pen position and baseline;
\* the space has no outline, hence no box
HasBox(c) == c # " "

GlyphBox(c) ==
    CASE c = "i" -> [xmin |-> 1,  xmax |-> 3,  ymin |-> -13, ymax |-> 0]
      [] c = "j" -> [xmin |-> -1, xmax |-> 3,  ymin |-> -13, ymax |-> 4]
      [] c = "m" -> [xmin |-> 1,  xmax |-> 13, ymin |-> -10, ymax |-> 0]

\* coverage (percent) the rasterizer reports for pixel (x, y) of a glyph box:
\* an antialiasing fringe in the box's first column, solid elsewhere
Coverage(c, x, y) == IF x = 0 /\ y % 2 = 1 THEN 3 ELSE 100

\* x position of the k-th glyph of a laid-out run (cumulative advances)
RECURSIVE GlyphPos(_, _)
GlyphPos(text, k) ==
    IF k <= 1 THEN 0 ELSE GlyphPos(text, k - 1) + AdvanceWidth(text[k - 1])

\* TextPainter::word_width
word_width(word) ==
    IF Len(word) = 0 THEN 0
    ELSE GlyphPos(word, Len(word)) + AdvanceWidth(word[Len(word)])

----------------------------------------------------------------------------
(* str::split_whitespace *)

RECURSIVE SplitFrom(_, _, _, _)
SplitFrom(text, k, cur, acc) ==
    IF k > Len(text)
    THEN IF cur = <<>> THEN acc ELSE Append(acc, cur)
    ELSE IF text[k] = " "
         THEN SplitFrom(text, k + 1, <<>>,
                        IF cur = <<>> THEN acc ELSE Append(acc, cur))
         ELSE SplitFrom(text, k + 1, Append(cur, text[k]), acc)

split_whitespace(text) == SplitFrom(text, 1, <<>>, <<>>)

----------------------------------------------------------------------------
(* TextPainter::draw_line *)

CoverageThreshold == 5

InBoundsNoWidth(gx, gy, w, h) ==
    gx >= 0 /\ gy >= 0 /\ AsU32(gy) < h

\* the guard of the blend: gx >= 0 && gy >= 0 && gx < width && gy < height
InBounds(gx, gy, w, h) ==
    gx >= 0 /\ gy >= 0 /\ AsU32(gx) < w /\ AsU32(gy) < h

\* the coverage samples of the k-th glyph of `text` that reach the blend,
\* as the pixel each one targets
GlyphTargets(w, h, text, k, left, top, baseline_y) ==
    IF ~HasBox(text[k]) THEN {}
    ELSE LET c    == text[k]
             g    == GlyphBox(c)
             minx == GlyphPos(text, k) + g.xmin
             miny == baseline_y + g.ymin
             bw   == g.xmax - g.xmin
             bh   == g.ymax - g.ymin
         IN { <<AsI32(left) + x + minx, AsI32(top) + y + miny>> :
                <<x, y>> \in { p \in (0..(bw - 1)) \X (0..(bh - 1)) :
                     /\ Coverage(c, p[1], p[2]) >= CoverageThreshold
                     /\ InBounds(AsI32(left) + p[1] + minx,
                                 AsI32(top) + p[2] + miny, w, h) } }

\* get_pixel_mut(gx as u32, gy as u32) panics outside the buffer
PixelInside(p, w, h) == AsU32(p[1]) < w /\ AsU32(p[2]) < h

\* one glyph blended into the image: `ink` collects the pixels handed to
\* get_pixel_mut, `panicked` whether one of them lay outside the buffer
DrawGlyph(im, text, k, left, top, baseline_y) ==
    LET t == GlyphTargets(im.w, im.h, text, k, left, top, baseline_y)
    IN [im EXCEPT
          !.ink = @ \cup { <<AsU32(p[1]), AsU32(p[2])>> : p \in t },
          !.panicked = @ \/ (\E q \in t : ~PixelInside(q, im.w, im.h))]

RECURSIVE DrawGlyphs(_, _, _, _, _, _)
DrawGlyphs(im, text, k, left, top, baseline_y) ==
    IF k > Len(text) \/ im.panicked THEN im
    ELSE DrawGlyphs(DrawGlyph(im, text, k, left, top, baseline_y),
                    text, k + 1, left, top, baseline_y)

draw_line(im, text, left, top, baseline_y) ==
    DrawGlyphs(im, text, 1, left, top, baseline_y)

\* RgbImage::from_pixel(w, h, bg): every pixel background, none drawn
NewImage(w, h) == [w |-> w, h |-> h, line |-> {}, ink |-> {}, panicked |-> FALSE]

NoImage == [w |-> 0, h |-> 0, line |-> {}, ink |-> {}, panicked |-> FALSE]

----------------------------------------------------------------------------
(* TextPainter::draw_wrapped *)

\* line 116: the word does not fit behind the current line
NeedsFlushNoSpace(line, line_width, extra, w_width, max_wf) ==
    line # <<>> /\ line_width + w_width > max_wf

NeedsFlush(line, line_width, extra, w_width, max_wf) ==
    line # <<>> /\ line_width + extra + w_width > max_wf

\* lines 118 and 128: the next line would end below the box
HeightExceededLate(pen_y, max_hf) == pen_y > max_hf

HeightExceeded(pen_y, max_hf) == pen_y + LineHeight > max_hf

\* lines 124-125: the word joins the line, behind a space if not first
PushWordNoSpace(line, w) == line \o w

PushWord(line, w) == IF line # <<>> THEN line \o <<" ">> \o w ELSE w

\* the locals of draw_wrapped before the loop (lines 104-112)
WrapStart(im, text, left, top, max_w, max_h) ==
    [text |-> text, left |-> left, top |-> top, max_w |-> max_w, max_h |-> max_h,
     words |-> split_whitespace(text), i |-> 1,
     line |-> <<>>, line_width |-> 0, pen_y |-> 0,
     calls |-> <<>>, stop |-> FALSE, pc |-> "loop", img |-> im]

\* a call of draw_line from draw_wrapped (lines 119 and 129)
EmitLine(st) ==
    [st EXCEPT !.calls = Append(@, [text |-> st.line, baseline_y |-> st.pen_y + Ascent]),
               !.img = draw_line(@, st.line, st.left, st.top, st.pen_y + Ascent)]

\* one iteration of the loop over the words (lines 113-131)
WrapIteration(st) ==
    LET w       == st.words[st.i]
        w_width == word_width(w)
        extra   == IF st.line = <<>> THEN 0 ELSE word_width(<<" ">>)
        flush   == NeedsFlush(st.line, st.line_width, extra, w_width, st.max_w)
        broke   == [st EXCEPT !.stop = TRUE, !.pc = "done"]
    IN IF flush /\ HeightExceeded(st.pen_y, st.max_h) THEN broke
       ELSE LET s1 == IF flush
                      THEN [EmitLine(st) EXCEPT !.pen_y = @ + LineHeight,
                                                !.line = <<>>, !.line_width = 0]
                      ELSE st
                s2 == [s1 EXCEPT
                         !.line = PushWord(s1.line, w),
                         !.line_width = @ + (IF s1.line # <<>> THEN extra ELSE 0) + w_width]
            IN IF st.i = Len(st.words)
               THEN IF HeightExceeded(s2.pen_y, s2.max_h)
                    THEN [s2 EXCEPT !.stop = TRUE, !.pc = "done"]
                    ELSE [EmitLine(s2) EXCEPT !.pc = "done"]
               ELSE [s2 EXCEPT !.i = @ + 1]

\* the loop ends without an iteration when there is no word
WrapSettle(st) == IF st.pc = "loop" /\ st.words = <<>> THEN [st EXCEPT !.pc = "done"] ELSE st

RECURSIVE WrapRun(_)
WrapRun(st) == IF st.pc = "done" \/ st.img.panicked THEN st ELSE WrapRun(WrapIteration(st))

draw_wrapped(im, text, left, top, max_w, max_h) ==
    WrapRun(WrapSettle(WrapStart(im, text, left, top, max_w, max_h)))

----------------------------------------------------------------------------
(* find_system_font_data *)

\* A host is the BINGO_FONT_PATH override ("unset", or the kind of file it
\* names) and the files under the font directories in walk order.  A file is
\* [stem, ext, readable, parses, score]: score is its count of printable
\* ASCII characters with a glyph.

FONT_CANDIDATES ==
    <<"Arial", "Helvetica", "DejaVuSans", "LiberationSans", "SegoeUI",
      "Segoe UI", "NotoSans-Regular", "NotoSans", "Cantarell-Regular">>

\* to_ascii_lowercase / eq_ignore_ascii_case on the names the model uses
AsciiLower(s) ==
    CASE s = "Arial" -> "arial"
      [] s = "Helvetica" -> "helvetica"
      [] s = "DejaVuSans" -> "dejavusans"
      [] s = "LiberationSans" -> "liberationsans"
      [] s = "SegoeUI" -> "segoeui"
      [] s = "Segoe UI" -> "segoe ui"
      [] s = "NotoSans-Regular" -> "notosans-regular"
      [] s = "NotoSans" -> "notosans"
      [] s = "NOTOSANS" -> "notosans"
      [] s = "Cantarell-Regular" -> "cantarell-regular"
      [] s = "Zapf" -> "zapf"
      [] s = "OTF" -> "otf"
      [] s = "ttf" -> "ttf"
      [] s = "txt" -> "txt"

EqIgnoreAsciiCase(a, b) == AsciiLower(a) = AsciiLower(b)

NoData == [kind |-> "none", file |-> 0, parses |-> FALSE]

\* lines 13-15: the override's bytes when the variable is set and readable
OverrideData(e) ==
    IF e.override \in {"font", "nonfont"}
    THEN [kind |-> "override", file |-> 0, parses |-> e.override = "font"]
    ELSE NoData

\* lines 36-48: the indices of the files with extension ttf or otf
FontFiles(e) ==
    SelectSeq([k \in 1..Len(e.files) |-> k],
              LAMBDA k : AsciiLower(e.files[k].ext) \in {"ttf", "otf"})

FileData(e, k) == [kind |-> "file", file |-> k, parses |-> e.files[k].parses]

\* line 54: the first collected file whose stem is the candidate name
FirstNamed(e, ff, cand) ==
    LET hits == SelectSeq(ff, LAMBDA k : EqIgnoreAsciiCase(e.files[k].stem, cand))
    IN IF hits = <<>> THEN 0 ELSE hits[1]

\* lines 53-57: the candidate names in order; the first whose file reads wins
RECURSIVE FastPathFrom(_, _, _)
FastPathFrom(e, ff, c) ==
    IF c > Len(FONT_CANDIDATES) THEN NoData
    ELSE LET k == FirstNamed(e, ff, FONT_CANDIDATES[c])
         IN IF k # 0 /\ e.files[k].readable THEN FileData(e, k)
            ELSE FastPathFrom(e, ff, c + 1)

FastPathData(e, ff) == FastPathFrom(e, ff, 1)

\* lines 60-74: the first file of the largest score among those that parse
RECURSIVE BestFrom(_, _, _, _)
BestFrom(e, ff, j, best) ==
    IF j > Len(ff) THEN best
    ELSE LET f == e.files[ff[j]]
         IN IF f.readable /\ f.parses /\ (best = 0 \/ f.score > e.files[best].score)
            THEN BestFrom(e, ff, j + 1, ff[j])
            ELSE BestFrom(e, ff, j + 1, best)

\* lines 75-77
ScoringData(e, ff) ==
    LET best == BestFrom(e, ff, 1, 0)
    IN IF best # 0 /\ e.files[best].readable THEN FileData(e, best) ELSE NoData

find_system_font_data(e) ==
    IF OverrideData(e) # NoData THEN OverrideData(e)
    ELSE IF FontFiles(e) = <<>> THEN NoData
    ELSE IF FastPathData(e, FontFiles(e)) # NoData THEN FastPathData(e, FontFiles(e))
    ELSE ScoringData(e, FontFiles(e))

\* lines 178-179 with TextPainter::new (lines 87-88): what the render makes
\* of the located bytes
PainterOutcome(data) ==
    IF data = NoData THEN "err_no_system_font"
    ELSE IF ~data.parses THEN "err_invalid_font_data"
    ELSE "painter"

----------------------------------------------------------------------------
(* SpecFont: the locator on every small host *)

FileKinds ==
    [stem : {"Arial", "NOTOSANS", "Zapf"}, ext : {"OTF", "txt"},
     readable : {TRUE}, parses : {TRUE}, score : {10, 95}]
    \cup [stem : {"Arial", "NOTOSANS", "Zapf"}, ext : {"OTF", "txt"},
          readable : {TRUE}, parses : {FALSE}, score : {0}]
    \cup [stem : {"Arial", "NOTOSANS", "Zapf"}, ext : {"OTF", "txt"},
          readable : {FALSE}, parses : {FALSE}, score : {0}]

RECURSIVE FileListsUpTo(_)
FileListsUpTo(n) ==
    IF n = 0 THEN { <<>> }
    ELSE LET shorter == FileListsUpTo(n - 1)
         IN shorter \cup { Append(l, f) : l \in { s \in shorter : Len(s) = n - 1 },
                                          f \in FileKinds }

Overrides == {"unset", "unreadable", "nonfont", "font"}

InitFont ==
    /\ env \in [override : Overrides, files : FileListsUpTo(MaxFiles)]
    /\ loc = [pc |-> "override", font_files |-> <<>>, data |-> NoData,
              discovery |-> FALSE, outcome |-> "none"]
    /\ wrap = [pc |-> "idle"] /\ draw = [pc |-> "idle"]
    /\ board_size = 0 /\ elements = [len |-> 0, pat |-> <<>>]
    /\ overflow_checks = FALSE
    /\ pc = "idle" /\ img = NoImage /\ gi = 0 /\ cell = 0
    /\ font_data = "unlooked" /\ touched = <<>> /\ outcome = "none" /\ file_created = FALSE

locRest == <<board_size, elements, overflow_checks, env, pc, img, gi, cell,
             font_data, touched, outcome, file_created, wrap, draw>>

\* lines 13-15
TryOverride ==
    /\ loc.pc = "override"
    /\ loc' = IF OverrideData(env) # NoData
              THEN [loc EXCEPT !.data = OverrideData(env), !.pc = "painter"]
              ELSE [loc EXCEPT !.pc = "collect"]
    /\ UNCHANGED locRest

\* lines 17-50
CollectFonts ==
    /\ loc.pc = "collect"
    /\ loc' = [loc EXCEPT !.discovery = TRUE,
                          !.font_files = FontFiles(env),
                          !.pc = IF FontFiles(env) = <<>> THEN "painter" ELSE "fast"]
    /\ UNCHANGED locRest

\* lines 52-57
FastPath ==
    /\ loc.pc = "fast"
    /\ LET d == FastPathData(env, loc.font_files)
       IN loc' = [loc EXCEPT !.data = d,
                             !.pc = IF d # NoData THEN "painter" ELSE "score"]
    /\ UNCHANGED locRest

\* lines 59-77
ScoreFonts ==
    /\ loc.pc = "score"
    /\ loc' = [loc EXCEPT !.data = ScoringData(env, loc.font_files), !.pc = "painter"]
    /\ UNCHANGED locRest

\* lines 178-179 and 87-88
NewPainter ==
    /\ loc.pc = "painter"
    /\ loc' = [loc EXCEPT !.outcome = PainterOutcome(loc.data), !.pc = "done"]
    /\ UNCHANGED locRest

NextFont == TryOverride \/ CollectFonts \/ FastPath \/ ScoreFonts \/ NewPainter

SpecFont == InitFont /\ [][NextFont]_vars

----------------------------------------------------------------------------
(* render_board_to_png *)

cell_px == 128

padding == 20

\* lines 186-187: the inner margin of a cell's text box
InnerMargin == 10

\* lines 188-189: cell_px - 20
MaxTextBox == cell_px - 20

\* a u32 operation overflows: a panic when the build checks overflow
\* (debug profile), a wrap-around when it does not (release profile)
Overflows(x) == x >= WordMod

\* elements[idx] of the board's strings
ElementAt(el, idx) == el.pat[(idx % Len(el.pat)) + 1]

GridW == WrapU32(board_size * cell_px)

\* ImageBuffer::put_pixel panics outside the buffer
PutPixels(im, px) ==
    [im EXCEPT !.line = @ \cup px,
               !.panicked = @ \/ (\E p \in px : p[1] >= im.w \/ p[2] >= im.h)]

\* line 153: assert_eq!((board_size * board_size) as usize, elements.len())
CheckDims ==
    /\ pc = "check"
    /\ IF overflow_checks /\ Overflows(board_size * board_size)
       THEN pc' = "done" /\ outcome' = "panic_overflow"
       ELSE IF WrapU32(board_size * board_size) # elements.len
            THEN pc' = "done" /\ outcome' = "panic_dimension"
            ELSE pc' = "alloc" /\ UNCHANGED outcome
    /\ UNCHANGED <<board_size, elements, overflow_checks, env, img, gi, cell,
                   font_data, touched, file_created, loc, wrap, draw>>

\* lines 156-167: the layout and RgbImage::from_pixel(img_w, img_h, bg)
Allocate ==
    /\ pc = "alloc"
    /\ IF overflow_checks /\ (Overflows(board_size * cell_px)
                               \/ Overflows(GridW + padding * 2))
       THEN pc' = "done" /\ outcome' = "panic_overflow" /\ UNCHANGED <<img, gi>>
       ELSE /\ img' = NewImage(WrapU32(GridW + padding * 2), WrapU32(GridW + padding * 2))
            /\ gi' = 0
            /\ pc' = "grid"
            /\ UNCHANGED outcome
    /\ UNCHANGED <<board_size, elements, overflow_checks, env, cell,
                   font_data, touched, file_created, loc, wrap, draw>>

\* lines 170-175: iteration gi of the grid loop.  The loop is followed on
\* boards of at most MaxBoard cells a side.
GridLine ==
    /\ pc = "grid"
    /\ board_size <= MaxBoard
    /\ LET y  == padding + gi * cell_px
           x  == padding + gi * cell_px
           h  == IF y < img.h
                 THEN { <<t, y>> : t \in padding..(padding + GridW - 1) } ELSE {}
           v  == IF x < img.w
                 THEN { <<x, t>> : t \in padding..(padding + GridW - 1) } ELSE {}
           im == PutPixels(img, h \cup v)
       IN /\ img' = im
          /\ IF im.panicked THEN pc' = "done" /\ outcome' = "panic_put_pixel"
             ELSE /\ pc' = IF gi = board_size THEN "font" ELSE "grid"
                  /\ UNCHANGED outcome
    /\ gi' = gi + 1
    /\ UNCHANGED <<board_size, elements, overflow_checks, env, cell,
                   font_data, touched, file_created, loc, wrap, draw>>

\* lines 178-179: find_system_font_data and TextPainter::new
LoadFont ==
    /\ pc = "font"
    /\ font_data' = find_system_font_data(env)
    /\ IF PainterOutcome(font_data') = "painter"
       THEN /\ pc' = IF board_size = 0 THEN "write" ELSE "cells"
            /\ UNCHANGED outcome
       ELSE pc' = "done" /\ outcome' = PainterOutcome(font_data')
    /\ cell' = 0
    /\ UNCHANGED <<board_size, elements, overflow_checks, env, img, gi,
                   touched, file_created, loc, wrap, draw>>

\* lines 184-190: one cell of the row-major loop; `touched` keeps, per cell,
\* the pixels its text was blended into
DrawCell ==
    /\ pc = "cells"
    /\ LET row == cell \div board_size
           col == cell % board_size
           idx == row * board_size + col
           x0  == padding + col * cell_px + InnerMargin
           y0  == padding + row * cell_px + InnerMargin
           st  == draw_wrapped([img EXCEPT !.ink = {}], ElementAt(elements, idx),
                               x0, y0, MaxTextBox, MaxTextBox)
       IN /\ img' = [img EXCEPT !.ink = @ \cup st.img.ink, !.panicked = st.img.panicked]
          /\ touched' = Append(touched, st.img.ink)
          /\ IF st.img.panicked THEN pc' = "done" /\ outcome' = "panic_get_pixel"
             ELSE /\ pc' = IF cell + 1 = board_size * board_size THEN "write" ELSE "cells"
                  /\ UNCHANGED outcome
    /\ cell' = cell + 1
    /\ UNCHANGED <<board_size, elements, overflow_checks, env, gi,
                   font_data, file_created, loc, wrap, draw>>

\* lines 194-196: File::create and the PNG encoding; the file system decides
WriteFile ==
    /\ pc = "write"
    /\ \E ok \in BOOLEAN :
          /\ file_created' = ok
          /\ outcome' = IF ok THEN "ok" ELSE "err_io"
    /\ pc' = "done"
    /\ UNCHANGED <<board_size, elements, overflow_checks, env, img, gi, cell,
                   font_data, touched, loc, wrap, draw>>

Next == CheckDims \/ Allocate \/ GridLine \/ LoadFont \/ DrawCell \/ WriteFile

----------------------------------------------------------------------------
(* Inputs of a render *)

Rep(c, n) == [k \in 1..n |-> c]

RECURSIVE Words(_, _)
Words(w, n) == IF n <= 1 THEN w ELSE Words(w, n - 1) \o <<" ">> \o w

TextShort == <<"m", "i">>

TextTwoLines == <<"m", "i", "m", "m", "m", "m", " ", " ", "j", "i", "m", "m", "m", "m">>

TextWide == Rep("m", 10)

TextTall == Words(Rep("m", 7), 6)

Patterns ==
    { <<TextShort>>, <<TextTwoLines, <<>>>>, <<TextWide>>, <<TextTall, TextShort>> }

\* sides whose square, or whose width in pixels, wraps the machine word
LargeBoards == {256, 32768}

BoardSizes == (0..MaxBoard) \cup LargeBoards

ElementCounts == { n * n : n \in 0..MaxBoard } \cup {2, 5, WordMod}

GoodFile(stem, score) ==
    [stem |-> stem, ext |-> "OTF", readable |-> TRUE, parses |-> TRUE, score |-> score]

RenderHosts ==
    { [override |-> "unset", files |-> << GoodFile("Arial", 95) >>],
      [override |-> "unset", files |-> <<>>],
      [override |-> "nonfont", files |-> << GoodFile("Arial", 95) >>],
      [override |-> "unset",
       files |-> << [stem |-> "Zapf", ext |-> "txt", readable |-> TRUE,
                     parses |-> FALSE, score |-> 0],
                    GoodFile("Zapf", 10), GoodFile("NOTOSANS", 95) >>] }

Init ==
    /\ board_size \in BoardSizes
    /\ elements \in [len : ElementCounts, pat : Patterns]
    /\ overflow_checks \in BOOLEAN
    /\ env \in RenderHosts
    /\ pc = "check" /\ img = NoImage /\ gi = 0 /\ cell = 0
    /\ font_data = "unlooked" /\ touched = <<>> /\ outcome = "none"
    /\ file_created = FALSE
    /\ loc = [pc |-> "idle"] /\ wrap = [pc |-> "idle"] /\ draw = [pc |-> "idle"]

Spec == Init /\ [][Next]_vars

----------------------------------------------------------------------------
(* Inputs of the unit specifications *)

RECURSIVE TextsUpTo(_, _)
TextsUpTo(chars, n) ==
    IF n = 0 THEN { <<>> }
    ELSE LET shorter == TextsUpTo(chars, n - 1)
         IN shorter \cup { Append(t, c) : t \in { s \in shorter : Len(s) = n - 1 }, c \in chars }

WrapChars == {"i", "m", " "}

WrapWidths == {0, 13, 18, 33}

WrapHeights == {0, 21, 50, 108}

LineChars == {"i", "j", "m", " "}

Idle == [pc |-> "idle"]

NoHost == [override |-> "unset", files |-> <<>>]

----------------------------------------------------------------------------
(* SpecWrap: draw_wrapped on a 148 x 148 image, box at (30, 30) *)

InitWrap ==
    /\ \E text \in TextsUpTo(WrapChars, MaxTextLen), mw \in WrapWidths, mh \in WrapHeights :
          wrap = WrapSettle(WrapStart(NewImage(148, 148), text, 30, 30, mw, mh))
    /\ draw = Idle /\ loc = Idle
    /\ board_size = 0 /\ elements = [len |-> 0, pat |-> <<>>]
    /\ overflow_checks = FALSE /\ env = NoHost
    /\ pc = "idle" /\ img = NoImage /\ gi = 0 /\ cell = 0
    /\ font_data = "unlooked" /\ touched = <<>> /\ outcome = "none" /\ file_created = FALSE

WrapWord ==
    /\ wrap.pc = "loop"
    /\ wrap' = WrapIteration(wrap)
    /\ UNCHANGED <<renderVars, loc, draw>>

NextWrap == WrapWord

SpecWrap == InitWrap /\ [][NextWrap]_vars

----------------------------------------------------------------------------
(* SpecDraw: draw_line, glyph by glyph, on small images *)

DrawImages == { NewImage(8, 8), NewImage(20, 6) }

DrawLefts == {0, 3, 7, WordMod - 2}

DrawTops == {0, 5, WordMod - 3}

DrawBaselines == {0, 3, 14}

InitDraw ==
    /\ \E im \in DrawImages, text \in TextsUpTo(LineChars, MaxLineLen),
          l \in DrawLefts, t \in DrawTops, b \in DrawBaselines :
          /\ text # <<>>
          /\ draw = [pc |-> "glyphs", img |-> im, text |-> text, k |-> 1,
                     left |-> l, top |-> t, baseline_y |-> b]
    /\ wrap = Idle /\ loc = Idle
    /\ board_size = 0 /\ elements = [len |-> 0, pat |-> <<>>]
    /\ overflow_checks = FALSE /\ env = NoHost
    /\ pc = "idle" /\ img = NoImage /\ gi = 0 /\ cell = 0
    /\ font_data = "unlooked" /\ touched = <<>> /\ outcome = "none" /\ file_created = FALSE

DrawNextGlyph ==
    /\ draw.pc = "glyphs"
    /\ LET im == DrawGlyph(draw.img, draw.text, draw.k, draw.left, draw.top, draw.baseline_y)
       IN draw' = [draw EXCEPT
                     !.img = im,
                     !.k = @ + 1,
                     !.pc = IF im.panicked THEN "panic"
                            ELSE IF draw.k = Len(draw.text) THEN "done" ELSE "glyphs"]
    /\ UNCHANGED <<renderVars, loc, wrap>>

NextDraw == DrawNextGlyph

SpecDraw == InitDraw /\ [][NextDraw]_vars

----------------------------------------------------------------------------
(* Properties of draw_wrapped (SpecWrap) *)

\* the width of a line as the sum of its words' advance widths plus one
\* space width between consecutive words
RECURSIVE MeasuredWidth(_)
MeasuredWidth(ws) ==
    IF Len(ws) = 0 THEN 0
    ELSE IF Len(ws) = 1 THEN word_width(ws[1])
    ELSE MeasuredWidth(SubSeq(ws, 1, Len(ws) - 1))
           + word_width(<<" ">>) + word_width(ws[Len(ws)])

\* the words of the emitted lines, in emission order
RECURSIVE EmittedWords(_)
EmittedWords(calls) ==
    IF Len(calls) = 0 THEN <<>>
    ELSE EmittedWords(SubSeq(calls, 1, Len(calls) - 1))
           \o split_whitespace(calls[Len(calls)].text)

IsPrefix(a, b) == Len(a) <= Len(b) /\ SubSeq(b, 1, Len(a)) = a

\* C4: every line handed to draw_line is a single word or measures at most
\* max_w; a word wider than max_w shares its line with no other word.
WrapLinesFit ==
    \A k \in 1..Len(wrap.calls) :
       LET ws == split_whitespace(wrap.calls[k].text)
       IN /\ Len(ws) >= 1
          /\ Len(ws) = 1 \/ MeasuredWidth(ws) <= wrap.max_w
          /\ \A j \in 1..Len(ws) : word_width(ws[j]) > wrap.max_w => Len(ws) = 1

\* a finished wrap that emitted a fitting two-word line and an over-wide
\* word on a line of its own
WrapLinesFitWitness ==
    /\ wrap.pc = "done"
    /\ \E k \in 1..Len(wrap.calls) :
          Len(split_whitespace(wrap.calls[k].text)) = 2
    /\ \E k \in 1..Len(wrap.calls) :
          /\ Len(split_whitespace(wrap.calls[k].text)) = 1
          /\ word_width(wrap.calls[k].text) > wrap.max_w

WrapHeightInv ==
    /\ \A k \in 1..Len(wrap.calls) :
          /\ wrap.calls[k].baseline_y - Ascent = (k - 1) * LineHeight
          /\ (wrap.calls[k].baseline_y - Ascent) + LineHeight <= wrap.max_h
    /\ Len(wrap.calls) * LineHeight <= wrap.max_h
    /\ wrap.stop => wrap.pc = "done"
    /\ ~wrap.img.panicked

\* C5: a line is emitted only if its vertical offset plus the line height is
\* at most max_h, so lines * line height never exceeds max_h; after the first
\* line that fails the check no line is emitted, and nothing fails.
WrapHeightBound ==
    /\ []WrapHeightInv
    /\ [][wrap.stop => wrap'.calls = wrap.calls /\ wrap'.img = wrap.img]_vars

\* a wrap that emitted a line and then dropped the rest of the text
WrapHeightBoundWitness ==
    /\ wrap.pc = "done" /\ wrap.stop
    /\ Len(wrap.calls) >= 1
    /\ Len(EmittedWords(wrap.calls)) < Len(split_whitespace(wrap.text))

\* C10: the emitted words are a prefix of the input's words, and all of them
\* when no line was dropped; no word yields no line, one fitting word yields
\* one line equal to it.
WrapKeepsWords ==
    LET input == split_whitespace(wrap.text)
        out   == EmittedWords(wrap.calls)
    IN /\ IsPrefix(out, input)
       /\ (wrap.pc = "done" /\ ~wrap.stop) => out = input
       /\ input = <<>> => (wrap.pc = "done" /\ wrap.calls = <<>>)
       /\ (wrap.pc = "done" /\ Len(input) = 1 /\ LineHeight <= wrap.max_h)
             => wrap.calls = << [text |-> input[1], baseline_y |-> Ascent] >>

\* a finished wrap of three words over more than one line, nothing dropped
WrapKeepsWordsWitness ==
    /\ wrap.pc = "done" /\ ~wrap.stop
    /\ Len(wrap.calls) >= 2
    /\ Len(split_whitespace(wrap.text)) >= 3

----------------------------------------------------------------------------
(* Properties of draw_line (SpecDraw) *)

\* every coverage sample at or above the threshold of the glyphs before the
\* k-th, at the signed pixel it falls on
SamplesBefore(text, k, left, top, baseline_y) ==
    UNION { { <<AsI32(left) + GlyphPos(text, j) + GlyphBox(text[j]).xmin + x,
                AsI32(top) + baseline_y + GlyphBox(text[j]).ymin + y>> :
                <<x, y>> \in { p \in (0..(GlyphBox(text[j]).xmax - GlyphBox(text[j]).xmin - 1))
                                  \X (0..(GlyphBox(text[j]).ymax - GlyphBox(text[j]).ymin - 1)) :
                               Coverage(text[j], p[1], p[2]) >= CoverageThreshold } } :
            j \in { i \in 1..(k - 1) : HasBox(text[i]) } }

----------------------------------------------------------------------------
(* Properties of the font locator (SpecFont) *)

FontFailures == {"err_no_system_font", "err_invalid_font_data"}

\* C1: with an override configured, discovery is never attempted, and an
\* override that is unreadable or not a font makes the render fail for lack
\* of a font.
OverrideAbsolute ==
    env.override # "unset" =>
       /\ ~loc.discovery
       /\ (loc.pc = "done" /\ env.override \in {"unreadable", "nonfont"})
             => loc.outcome \in FontFailures

\* C8: without an override, whenever a collected ttf/otf file is readable
\* and parses, the locator's result parses (it is the name-preferred match
\* or else the best-scoring file) and the render gets its painter.
DiscoveryFindsParseable ==
    (/\ env.override = "unset"
     /\ loc.pc = "done"
     /\ \E j \in 1..Len(FontFiles(env)) :
           env.files[FontFiles(env)[j]].readable /\ env.files[FontFiles(env)[j]].parses)
    => /\ loc.outcome = "painter"
       /\ loc.data.kind = "file"
       /\ env.files[loc.data.file].parses

----------------------------------------------------------------------------
(* Properties of the render (Spec) *)

Panics == {"panic_overflow", "panic_dimension", "panic_put_pixel", "panic_get_pixel"}

\* C2: when the number of strings is not n * n the render fails at once:
\* no buffer, no font lookup, no output file.
DimensionCheckFirst ==
    elements.len # board_size * board_size =>
       /\ img = NoImage
       /\ font_data = "unlooked"
       /\ ~file_created
       /\ pc = "done" => outcome \in {"panic_dimension", "panic_overflow"}

\* C3: for n >= 1 and n * n strings the render never panics and its buffer
\* is n * cell_px + 2 * padding pixels wide and high.
RenderAllocatesExactly ==
    (board_size >= 1 /\ elements.len = board_size * board_size) =>
       /\ outcome \notin Panics
       /\ ~img.panicked
       /\ pc \notin {"check", "alloc"} =>
             /\ img.w = board_size * cell_px + 2 * padding
             /\ img.h = board_size * cell_px + 2 * padding

\* the cell's own box, its bounding grid lines included
CellBox(k) ==
    LET row == k \div board_size
        col == k % board_size
    IN ((padding + col * cell_px)..(padding + (col + 1) * cell_px))
         \X ((padding + row * cell_px)..(padding + (row + 1) * cell_px))

\* C6: the text of a cell changes pixels of that cell's box only.
CellTextInsideCell ==
    \A k \in 1..Len(touched) : touched[k] \subseteq CellBox(k - 1)

\* the pixels the n + 1 horizontal and n + 1 vertical lines cover when each
\* runs from padding to padding + n * cell_px inclusive
FullGrid(n) ==
    { <<t, padding + i * cell_px>> : t \in padding..(padding + n * cell_px), i \in 0..n }
    \cup { <<padding + i * cell_px, t>> : t \in padding..(padding + n * cell_px), i \in 0..n }

\* C9: after the grid loop the line-coloured pixels are exactly the full
\* grid; every other pixel is background.
GridLinesFull ==
    (pc = "font" /\ board_size >= 1) => img.line = FullGrid(board_size)

====
